---- MODULE Spec2Model ----
(***************************************************************************)
(* StakeWatch (src/main.py, src/events.py): the polling cog that reads     *)
(* vault logs in block ranges, aggregates them into events, delivers them  *)
(* in (block, tx_idx) order and checkpoints the last processed block in    *)
(* res/state.json.                                                         *)
(*                                                                         *)
(* The process is modelled together with its environment: the chain, the   *)
(* state file, the discord.ext.tasks loop that drives fetch_events, and    *)
(* the ways a collaborator call can end (return, raise, be cancelled, or   *)
(* never return because the process died). src/stakewatch.py, the          *)
(* single-file variant of the cog, is modelled after it.                   *)
(***************************************************************************)
EXTENDS Integers, Sequences, FiniteSets, TLC

\* ------------------------------------------------------------------ bounds
\* blocks mined on top of the default checkpoint
MaxNewBlocks == 2
\* raw log entries on the chain, when the process may die and be started again
MaxLogs == 1
\* raw log entries on the chain, within one lifetime of the process
MaxBusyLogs == 2
\* largest --batch-size tried (0 is included: argparse accepts any int)
MaxBatch == 2

\* ------------------------------------------------------- program constants
\* main.py:31, the checkpoint used when res/state.json does not exist
DefaultLastBlock == 22319339

\* res/vaults.json in iteration order (main.py:38-43, 91)
Vaults == <<"Genesis Vault", "Private Vault">>

\* the three Event subclasses in the order fetch_events queries them (main.py:76-78)
Kinds == <<"Deposit", "ExitRequest", "ValidatorRegistration">>

VaultSet == {Vaults[n] : n \in 1..Len(Vaults)}
KindSet == {Kinds[n] : n \in 1..Len(Kinds)}
BatchSizes == 0..MaxBatch
Blocks == (DefaultLastBlock + 1)..(DefaultLastBlock + MaxNewBlocks)

VARIABLES
    head,          \* chain: w3.eth.block_number
    logs,          \* chain: the raw log entries emitted so far
    file,          \* res/state.json: absent, corrupt, or the last_block it holds
    batch_size,    \* cl_args.batch_size
    errors,        \* cl_args.errors is set (an error channel id was given)
    pc,            \* where the process / the fetch_events loop is
    last_block,    \* self.state['last_block']
    error_channel, \* self.error_channel is not None
    from_block,    \* fetch_events local
    to_block,      \* fetch_events local
    q,             \* number of _get_events_in_range calls returned in this cycle
    events,        \* fetch_events local: the list of Event objects
    cycleSent,     \* messages event_channel.send returned for, this cycle
    delivered,     \* history: every message ever sent successfully
    lastWritten,   \* history: the last complete checkpoint the file held
    outcome,       \* history: how the latest cycle of this process ended
    reported,      \* history: error_channel.send returned for the latest abort
    interrupted,   \* history: the cycle a process death cut short
    due            \* the loop's sleep deadline (_next_iteration) has passed

vars == <<head, logs, file, batch_size, errors, pc, last_block, error_channel,
          from_block, to_block, q, events, cycleSent, delivered, lastWritten,
          outcome, reported, interrupted, due>>

\* res/state.json as _load_state finds it
NoFile == [status |-> "absent", last_block |-> 0]
BrokenFile == [status |-> "corrupt", last_block |-> 0]
SavedFile(n) == [status |-> "ok", last_block |-> n]

NoInterrupt == [valid |-> FALSE, from |-> 0, to |-> 0]

\* ------------------------------------------------------------------- chain
\* the argument of the decoded log that the kind's to_embed reads
\* (events.py:39, 60, 83)
Field(kind) ==
    CASE kind = "Deposit" -> "assets"
      [] kind = "ExitRequest" -> "shares"
      [] kind = "ValidatorRegistration" -> "publicKey"

\* A raw log entry as get_all_entries returns it (main.py:95-99, events.py:19-22).
\* transactionHash identifies the transaction, i.e. the (block, index) slot;
\* logIndex tells apart the entries one transaction emits for one vault and kind.
\* The first entry carries the quantity (or key) 3, the second 5, and so on.
Receipt(vault, kind, b, t, l) ==
    [address |-> vault, event |-> kind, blockNumber |-> b,
     transactionIndex |-> t, transactionHash |-> <<b, t>>, logIndex |-> l,
     args |-> [f \in {Field(kind)} |-> 3 + 2 * l]]

\* the vault contract's convertToAssets(shares) evaluated as of block b: the
\* share price moves from block to block and the contract rounds down
ConvertToAssets(shares, b) == (shares * (2 + (b - DefaultLastBlock))) \div 2

\* With at most n entries on the chain, n transaction slots per block are enough.
LogUniverse(n) ==
    {Receipt(v, k, b, t, l) : v \in VaultSet, k \in KindSet, b \in Blocks,
                              t \in 0..(n - 1), l \in 0..(n - 1)}

\* The program compares transaction indexes and nothing else, so the
\* transactions that emit entries are numbered from 0 without gaps inside a
\* block; so are the entries one transaction emits for one vault and kind.
WellNumbered(S) ==
    \A s \in S :
        /\ s.transactionIndex > 0 =>
              \E t \in S : /\ t.blockNumber = s.blockNumber
                           /\ t.transactionIndex = s.transactionIndex - 1
        /\ s.logIndex > 0 =>
              \E t \in S : /\ t.address = s.address /\ t.event = s.event
                           /\ t.transactionHash = s.transactionHash
                           /\ t.logIndex = s.logIndex - 1

\* the sets of at most n entries of U that are well numbered
RECURSIVE ChainsUpTo(_, _)
ChainsUpTo(U, n) ==
    IF n = 0 THEN {{}}
    ELSE LET P == ChainsUpTo(U, n - 1)
         IN P \cup UNION {{p \cup {x} : x \in {u \in U : WellNumbered(p \cup {u})}} : p \in P}

Chains == ChainsUpTo(LogUniverse(MaxLogs), MaxLogs)
BusyChains == ChainsUpTo(LogUniverse(MaxBusyLogs), MaxBusyLogs)

\* what block b can carry
BlockLogs == [b \in Blocks |-> {S \in Chains : \A l \in S : l.blockNumber = b}]

\* ---------------------------------------------------------- pure functions
Perms(S) ==
    {p \in [1..Cardinality(S) -> S] : \A a, b \in 1..Cardinality(S) : p[a] = p[b] => a = b}

\* variant: the filter treats to_block as exclusive
MatchingExclusive(kind, vault, lo, hi) ==
    {l \in logs : l.event = kind /\ l.address = vault /\ lo <= l.blockNumber /\ l.blockNumber < hi}

\* what the filter of (event_type, vault_contract, from_block, to_block) matches
Matching(kind, vault, lo, hi) ==
    {l \in logs : l.event = kind /\ l.address = vault /\ lo <= l.blockNumber /\ l.blockNumber <= hi}

\* variant: no grouping, every entry is a transaction of its own
GroupPerEntry(entries) == [n \in 1..Len(entries) |-> <<entries[n]>>]

\* events_by_tx: a dict keeps its keys in first-insertion order and each list
\* in arrival order
RECURSIVE GroupByTx(_)
GroupByTx(entries) ==
    IF entries = <<>> THEN <<>>
    ELSE LET r == Head(entries)
             same == SelectSeq(entries, LAMBDA x : x.transactionHash = r.transactionHash)
             rest == SelectSeq(entries, LAMBDA x : x.transactionHash # r.transactionHash)
         IN <<same>> \o GroupByTx(rest)

\* Event.__init__
NewEvent(kind, vault, receipts) ==
    [kind |-> kind, vault_name |-> vault,
     block |-> receipts[1].blockNumber,
     tx_idx |-> receipts[1].transactionIndex,
     tx_hash |-> receipts[1].transactionHash,
     args |-> [n \in 1..Len(receipts) |-> receipts[n].args]]

\* the body of the vault loop of _get_events_in_range for one vault
EventsOfEntries(kind, vault, entries) ==
    LET groups == GroupByTx(entries)
    IN [n \in 1..Len(groups) |-> NewEvent(kind, vault, groups[n])]

\* variant: the sort key is the block alone
KeyLeqBlockOnly(a, b) == a.block <= b.block

\* attrgetter('block', 'tx_idx') compared as Python compares tuples
KeyLeq(a, b) == a.block < b.block \/ (a.block = b.block /\ a.tx_idx <= b.tx_idx)

\* sorted(events, key=...): a stable sort
RECURSIVE SortedEvents(_)
SortedEvents(s) ==
    IF s = <<>> THEN <<>>
    ELSE LET init == SortedEvents(SubSeq(s, 1, Len(s) - 1))
             e == s[Len(s)]
             k == Cardinality({n \in 1..Len(init) : KeyLeq(init[n], e)})
         IN SubSeq(init, 1, k) \o <<e>> \o SubSeq(init, k + 1, Len(init))

\* sum(args[f] for args in self.args)
RECURSIVE SumOf(_, _)
SumOf(args, f) ==
    IF args = <<>> THEN 0 ELSE args[1][f] + SumOf(Tail(args), f)

\* events.py:39, Deposit.to_embed: the quantity shown is the sum of the assets
\* of all receipts of the event (from_wei only changes the unit)
DepositAmount(e) == SumOf(e.args, "assets")

\* variant: one convertToAssets call per receipt, the results are added
ConvertCallsPerLog(e) ==
    [n \in 1..Len(e.args) |-> [shares |-> e.args[n]["shares"], block_identifier |-> e.block]]

\* events.py:60-61, ExitRequest.to_embed: the convertToAssets calls it makes
ConvertCalls(e) ==
    <<[shares |-> SumOf(e.args, "shares"), block_identifier |-> e.block]>>

RECURSIVE CallResults(_)
CallResults(calls) ==
    IF calls = <<>> THEN 0
    ELSE ConvertToAssets(calls[1].shares, calls[1].block_identifier)
             + CallResults(Tail(calls))

\* events.py:60-62: the quantity shown is what the vault returned
ExitRequestAmount(e) == CallResults(ConvertCalls(e))

\* events.py:83-87: one line per public key; their number picks the title
ValidatorCount(e) == Len([n \in 1..Len(e.args) |-> e.args[n]["publicKey"]])

\* to_embed finds the argument it reads in every receipt of the event
Renderable(e) == \A n \in 1..Len(e.args) : Field(e.kind) \in DOMAIN e.args[n]

\* event.to_embed(): what reaches the channel for an event. The embed names
\* the kind (title), the vault, the transaction and the kind's quantity.
Embed(e) ==
    [title |-> e.kind, vault_name |-> e.vault_name, tx_hash |-> e.tx_hash,
     amount |-> CASE e.kind = "Deposit" -> DepositAmount(e)
                  [] e.kind = "ExitRequest" -> ExitRequestAmount(e)
                  [] e.kind = "ValidatorRegistration" -> ValidatorCount(e)]

\* _get_events_in_range from vault number n on: every list of events the call
\* can return, one per order in which get_all_entries hands over the entries
RECURSIVE GetEventsInRange(_, _, _, _)
GetEventsInRange(kind, lo, hi, n) ==
    IF n > Len(Vaults) THEN {<<>>}
    ELSE {EventsOfEntries(kind, Vaults[n], p) \o rest :
             p \in Perms(Matching(kind, Vaults[n], lo, hi)),
             rest \in GetEventsInRange(kind, lo, hi, n + 1)}

\* variant: the larger of the two
Larger(a, b) == IF a < b THEN b ELSE a

Min(a, b) == IF a < b THEN a ELSE b

\* ------------------------------------------------------------ environment
\* how an awaited collaborator call can raise, as tasks.Loop sorts exceptions:
\* "transient" is one of the loop's retried types (OSError, aiohttp.ClientError,
\* asyncio.TimeoutError, ...), "fatal" is any other exception
Exceptions == {"transient", "fatal"}

Init ==
    /\ head = DefaultLastBlock
    /\ logs = {}
    /\ file = NoFile
    /\ batch_size \in BatchSizes
    /\ errors \in BOOLEAN
    /\ pc = "before_loop"
    /\ last_block = DefaultLastBlock
    /\ error_channel = FALSE
    /\ from_block = 0
    /\ to_block = 0
    /\ q = 0
    /\ events = <<>>
    /\ cycleSent = <<>>
    /\ delivered = {}
    /\ lastWritten = DefaultLastBlock
    /\ outcome = "none"
    /\ reported = FALSE
    /\ interrupted = NoInterrupt
    /\ due = FALSE

\* the chain grows by one block, which carries some log entries
MineBlock ==
    /\ head < DefaultLastBlock + MaxNewBlocks
    /\ head' = head + 1
    /\ \E S \in BlockLogs[head + 1] :
          /\ Cardinality(logs) + Cardinality(S) <= MaxLogs
          /\ logs' = logs \cup S
    /\ UNCHANGED <<due, file, batch_size, errors, pc, last_block, error_channel,
                   from_block, to_block, q, events, cycleSent, delivered,
                   lastWritten, outcome, reported, interrupted>>

\* the deadline the loop sleeps until passes: the 30 seconds since the last
\* iteration began (_next_iteration), or the back-off delay after a retried
\* exception. It can pass while fetch_events is still running.
Tick ==
    /\ pc \in {"sleep", "fetch", "deliver"}
    /\ ~due
    /\ due' = TRUE
    /\ UNCHANGED <<head, logs, file, batch_size, errors, pc, last_block,
                   error_channel, from_block, to_block, q, events, cycleSent,
                   delivered, lastWritten, outcome, reported, interrupted>>

\* ------------------------------------------------------------------ setup
\* before_loop: wait_until_ready, fetch_channel, fetch_channel if cl_args.errors
SetupOk ==
    /\ pc = "before_loop"
    /\ error_channel' = errors
    /\ pc' = "sleep"
    /\ due' = TRUE
    /\ UNCHANGED <<head, logs, file, batch_size, errors, last_block, from_block,
                   to_block, q, events, cycleSent, delivered, lastWritten,
                   outcome, reported, interrupted>>

\* an exception in before_loop ends the task: the loop body never runs
SetupFails ==
    /\ pc = "before_loop"
    /\ pc' = "failed"
    /\ UNCHANGED <<due, head, logs, file, batch_size, errors, last_block,
                   error_channel, from_block, to_block, q, events, cycleSent,
                   delivered, lastWritten, outcome, reported, interrupted>>

\* --------------------------------------------------------- the task loop
\* An exception leaves fetch_events. tasks.loop(seconds=30) has reconnect=True:
\* a retried type makes the loop sleep (back-off) and call fetch_events again,
\* without the error handler; any other exception runs on_error and ends the task.
Raise(exc) ==
    /\ pc' = IF exc = "transient" THEN "sleep" ELSE "on_error"
    /\ outcome' = "aborted"
    /\ reported' = FALSE
    /\ to_block' = 0
    /\ q' = 0
    /\ events' = <<>>
    /\ cycleSent' = <<>>
    /\ interrupted' = NoInterrupt

\* variant: the timer calls fetch_events whenever the deadline has passed,
\* whether or not the previous call has returned
StartCycleOnTimer ==
    /\ pc \in {"sleep", "fetch", "deliver"}
    /\ due
    /\ due' = FALSE
    /\ from_block' = last_block + 1
    /\ to_block' = Min(head, (last_block + 1) + batch_size - 1)
    /\ IF to_block' < from_block'
       THEN pc' = "sleep" /\ outcome' = "idle" /\ interrupted' = NoInterrupt
       ELSE pc' = "fetch" /\ outcome' = "running" /\ interrupted' = interrupted
    /\ q' = 0
    /\ events' = <<>>
    /\ cycleSent' = <<>>
    /\ reported' = FALSE
    /\ UNCHANGED <<head, logs, file, batch_size, errors, last_block,
                   error_channel, delivered, lastWritten>>

\* variant: fetch_events without the early return of lines 69-71
StartCycleNoReturn ==
    /\ pc = "sleep"
    /\ due
    /\ due' = FALSE
    /\ from_block' = last_block + 1
    /\ to_block' = Min(head, (last_block + 1) + batch_size - 1)
    /\ pc' = "fetch"
    /\ outcome' = "running"
    /\ q' = 0
    /\ events' = <<>>
    /\ cycleSent' = <<>>
    /\ reported' = FALSE
    /\ UNCHANGED <<head, logs, file, batch_size, errors, last_block,
                   error_channel, delivered, lastWritten, interrupted>>

\* fetch_events, lines 65-73: the range, and the early return on an empty one
StartCycle ==
    /\ pc = "sleep"
    /\ due
    /\ due' = FALSE
    /\ from_block' = last_block + 1
    /\ to_block' = Min(head, (last_block + 1) + batch_size - 1)
    /\ IF to_block' < from_block'
       THEN pc' = "sleep" /\ outcome' = "idle" /\ interrupted' = NoInterrupt
       ELSE pc' = "fetch" /\ outcome' = "running" /\ interrupted' = interrupted
    /\ q' = 0
    /\ events' = <<>>
    /\ cycleSent' = <<>>
    /\ reported' = FALSE
    /\ UNCHANGED <<head, logs, file, batch_size, errors, last_block,
                   error_channel, delivered, lastWritten>>

\* line 66 raises
BlockNumberFails ==
    /\ pc = "sleep"
    /\ due
    /\ due' = FALSE
    /\ \E exc \in Exceptions : Raise(exc)
    /\ from_block' = last_block + 1
    /\ UNCHANGED <<head, logs, file, batch_size, errors, last_block,
                   error_channel, delivered, lastWritten>>

\* variant: the events of a kind are sent as soon as they are fetched
FetchLogsAndSend ==
    /\ pc = "fetch"
    /\ q < Len(Kinds)
    /\ \E found \in GetEventsInRange(Kinds[q + 1], from_block, to_block, 1) :
          LET embeds == [n \in 1..Len(found) |-> Embed(found[n])]
          IN /\ events' = events \o found
             /\ cycleSent' = cycleSent \o embeds
             /\ delivered' = delivered \cup {embeds[n] : n \in 1..Len(embeds)}
    /\ q' = q + 1
    /\ pc' = IF q + 1 = Len(Kinds) THEN "deliver" ELSE "fetch"
    /\ UNCHANGED <<due, head, logs, file, batch_size, errors, last_block,
                   error_channel, from_block, to_block,
                   lastWritten, outcome, reported, interrupted>>

\* lines 76-78: the next _get_events_in_range call returns. For every vault the
\* filter is created, get_all_entries hands over the matching entries in some
\* order, they are grouped by transaction and one Event per transaction is
\* appended.
FetchLogs ==
    /\ pc = "fetch"
    /\ q < Len(Kinds)
    /\ \E found \in GetEventsInRange(Kinds[q + 1], from_block, to_block, 1) :
          events' = events \o found
    /\ q' = q + 1
    /\ pc' = IF q + 1 = Len(Kinds) THEN "deliver" ELSE "fetch"
    /\ UNCHANGED <<due, head, logs, file, batch_size, errors, last_block,
                   error_channel, from_block, to_block, cycleSent, delivered,
                   lastWritten, outcome, reported, interrupted>>

\* create_filter or get_all_entries raises
FetchFails ==
    /\ pc = "fetch"
    /\ q < Len(Kinds)
    /\ \E exc \in Exceptions : Raise(exc)
    /\ UNCHANGED <<due, head, logs, file, batch_size, errors, last_block,
                   error_channel, from_block, delivered, lastWritten>>

\* one pass of the delivery loop, lines 80-84: the next event in sorted order
\* is rendered, the balance is read and the send returns
Deliver ==
    /\ pc = "deliver"
    /\ Len(cycleSent) < Len(events)
    /\ LET e == SortedEvents(events)[Len(cycleSent) + 1]
       IN /\ Renderable(e)
          /\ cycleSent' = Append(cycleSent, Embed(e))
          /\ delivered' = delivered \cup {Embed(e)}
    /\ UNCHANGED <<due, head, logs, file, batch_size, errors, pc, last_block,
                   error_channel, from_block, to_block, q, events, lastWritten,
                   outcome, reported, interrupted>>

\* to_embed, get_balance or send raises
DeliverFails ==
    /\ pc = "deliver"
    /\ Len(cycleSent) < Len(events)
    /\ \E exc \in Exceptions : Raise(exc)
    /\ UNCHANGED <<due, head, logs, file, batch_size, errors, last_block,
                   error_channel, from_block, delivered, lastWritten>>

\* fetch_events returns or raises from lines 86-87: its locals are gone, the
\* messages it sent stay visible
LeaveAfterSends(how) ==
    /\ outcome' = how
    /\ pc' = "sleep"
    /\ q' = 0
    /\ events' = <<>>
    /\ interrupted' = NoInterrupt
    /\ UNCHANGED <<due, head, logs, batch_size, errors, error_channel, from_block,
                   to_block, cycleSent, delivered, reported>>

\* variant: lines 86-87 moved into the delivery loop
PersistInLoop ==
    /\ pc = "deliver"
    /\ last_block' = to_block
    /\ file' = SavedFile(to_block)
    /\ lastWritten' = to_block
    /\ LeaveAfterSends("completed")

\* lines 86-87 with _save_state returning
Persist ==
    /\ pc = "deliver"
    /\ Len(cycleSent) = Len(events)
    /\ last_block' = to_block
    /\ file' = SavedFile(to_block)
    /\ lastWritten' = to_block
    /\ LeaveAfterSends("completed")

\* lines 86-87 with open(..., 'w') raising OSError: the file is as it was.
\* OSError is one of the loop's retried types.
SaveOpenFails ==
    /\ pc = "deliver"
    /\ Len(cycleSent) = Len(events)
    /\ last_block' = to_block
    /\ LeaveAfterSends("save_failed")
    /\ UNCHANGED <<file, lastWritten>>

\* lines 86-87 with the write raising OSError after open(..., 'w') truncated
\* the file
SaveWriteFails ==
    /\ pc = "deliver"
    /\ Len(cycleSent) = Len(events)
    /\ last_block' = to_block
    /\ file' = BrokenFile
    /\ LeaveAfterSends("save_failed")
    /\ UNCHANGED lastWritten

\* ------------------------------------------------------------- on_error
\* lines 115-118 with no error channel: the failure is logged only
OnErrorNoChannel ==
    /\ pc = "on_error"
    /\ ~error_channel
    /\ pc' = "failed"
    /\ UNCHANGED <<due, head, logs, file, batch_size, errors, last_block,
                   error_channel, from_block, to_block, q, events, cycleSent,
                   delivered, lastWritten, outcome, reported, interrupted>>

\* lines 115-118 with error_channel.send returning
OnErrorSent ==
    /\ pc = "on_error"
    /\ error_channel
    /\ reported' = TRUE
    /\ pc' = "failed"
    /\ UNCHANGED <<due, head, logs, file, batch_size, errors, last_block,
                   error_channel, from_block, to_block, q, events, cycleSent,
                   delivered, lastWritten, outcome, interrupted>>

\* lines 115-118 with error_channel.send raising: on_error has no handler of
\* its own, the exception leaves it and the task ends with it
OnErrorSendFails ==
    /\ pc = "on_error"
    /\ error_channel
    /\ pc' = "failed"
    /\ outcome' = "handler_failed"
    /\ UNCHANGED <<due, head, logs, file, batch_size, errors, last_block,
                   error_channel, from_block, to_block, q, events, cycleSent,
                   delivered, lastWritten, reported, interrupted>>

\* ---------------------------------------------------- cancellation, death
\* the task is suspended in an await (or sleeping between iterations)
Suspended ==
    \/ pc \in {"before_loop", "sleep", "fetch", "on_error"}
    \/ pc = "deliver" /\ Len(cycleSent) < Len(events)

\* variant: the cancellation can also land between line 86 and line 87
CancelBetweenLines ==
    /\ Suspended \/ pc = "deliver"
    /\ pc' = "cancelled"
    /\ last_block' = IF pc = "deliver" /\ Len(cycleSent) = Len(events)
                     THEN to_block ELSE last_block
    /\ outcome' = IF pc \in {"fetch", "deliver"} THEN "cancelled" ELSE outcome
    /\ q' = 0
    /\ events' = <<>>
    /\ interrupted' = NoInterrupt
    /\ UNCHANGED <<due, head, logs, file, batch_size, errors,
                   error_channel, from_block, to_block, cycleSent, delivered,
                   lastWritten, reported>>

\* cog_unload: fetch_events.cancel() raises CancelledError at the await the
\* task is suspended in
Cancel ==
    /\ Suspended
    /\ pc' = "cancelled"
    /\ outcome' = IF pc \in {"fetch", "deliver"} THEN "cancelled" ELSE outcome
    /\ q' = 0
    /\ events' = <<>>
    /\ interrupted' = NoInterrupt
    /\ UNCHANGED <<due, head, logs, file, batch_size, errors, last_block,
                   error_channel, from_block, to_block, cycleSent, delivered,
                   lastWritten, reported>>

Running == pc \notin {"down", "load_failed"}

\* the process dies (kill, power loss, host reboot): everything in memory is
\* gone, the file and what was sent stay
Crash ==
    /\ Running
    /\ pc' = "down"
    /\ interrupted' = IF pc = "deliver" /\ Len(cycleSent) >= 1
                      THEN [valid |-> TRUE, from |-> from_block, to |-> to_block]
                      ELSE NoInterrupt
    /\ last_block' = 0
    /\ from_block' = 0
    /\ to_block' = 0
    /\ q' = 0
    /\ events' = <<>>
    /\ cycleSent' = <<>>
    /\ error_channel' = FALSE
    /\ outcome' = "none"
    /\ reported' = FALSE
    /\ due' = FALSE
    /\ UNCHANGED <<head, logs, file, batch_size, errors, delivered,
                   lastWritten>>

\* the process dies inside _save_state, after open(..., 'w') truncated the
\* file and before json.dump's output is on disk
SaveCrash ==
    /\ pc = "deliver"
    /\ Len(cycleSent) = Len(events)
    /\ file' = BrokenFile
    /\ pc' = "down"
    /\ interrupted' = NoInterrupt
    /\ last_block' = 0
    /\ from_block' = 0
    /\ to_block' = 0
    /\ q' = 0
    /\ events' = <<>>
    /\ cycleSent' = <<>>
    /\ error_channel' = FALSE
    /\ outcome' = "none"
    /\ reported' = FALSE
    /\ due' = FALSE
    /\ UNCHANGED <<head, logs, batch_size, errors, delivered, lastWritten>>

\* _load_state: None when the file is missing, the file's dict otherwise
LoadState(f) == IF f.status = "absent" THEN DefaultLastBlock ELSE f.last_block

\* StakeWatch.__init__, lines 26-36
Startup ==
    /\ pc \in {"down", "load_failed"}
    /\ file.status # "corrupt"
    /\ last_block' = LoadState(file)
    /\ error_channel' = FALSE
    /\ pc' = "before_loop"
    /\ UNCHANGED <<due, head, logs, file, batch_size, errors, from_block, to_block,
                   q, events, cycleSent, delivered, lastWritten, outcome,
                   reported, interrupted>>

\* StakeWatch.__init__ when json.load raises JSONDecodeError: _load_state
\* catches FileNotFoundError only, no cog is created
StartupFails ==
    /\ pc = "down"
    /\ file.status = "corrupt"
    /\ pc' = "load_failed"
    /\ UNCHANGED <<due, head, logs, file, batch_size, errors, last_block,
                   error_channel, from_block, to_block, q, events, cycleSent,
                   delivered, lastWritten, outcome, reported, interrupted>>

Next ==
    \/ MineBlock
    \/ Tick
    \/ SetupOk
    \/ SetupFails
    \/ StartCycle
    \/ BlockNumberFails
    \/ FetchLogs
    \/ FetchFails
    \/ Deliver
    \/ DeliverFails
    \/ Persist
    \/ SaveOpenFails
    \/ SaveWriteFails
    \/ OnErrorNoChannel
    \/ OnErrorSent
    \/ OnErrorSendFails
    \/ Cancel
    \/ Crash
    \/ SaveCrash
    \/ Startup
    \/ StartupFails

Spec == Init /\ [][Next]_vars

\* ------------------------------------------------------ fault-free runs
\* The process is started on a chain that already holds its blocks and up to
\* MaxBusyLogs entries, and no call raises: on_error never runs.
InitNoFault ==
    /\ head = DefaultLastBlock + MaxNewBlocks
    /\ logs \in BusyChains
    /\ file = NoFile
    /\ batch_size \in BatchSizes
    /\ errors = FALSE
    /\ pc = "before_loop"
    /\ last_block = DefaultLastBlock
    /\ error_channel = FALSE
    /\ from_block = 0
    /\ to_block = 0
    /\ q = 0
    /\ events = <<>>
    /\ cycleSent = <<>>
    /\ delivered = {}
    /\ lastWritten = DefaultLastBlock
    /\ outcome = "none"
    /\ reported = FALSE
    /\ interrupted = NoInterrupt
    /\ due = FALSE

NextNoFault ==
    \/ SetupOk
    \/ Tick
    \/ StartCycle
    \/ FetchLogs
    \/ Deliver
    \/ Persist

SpecNoFault == InitNoFault /\ [][NextNoFault]_vars

\* Catching up: fault-free runs in which, moreover, the timer fires and every
\* awaited call returns. What the blocks carry does not matter to the progress
\* of the checkpoint, so the chain holds up to MaxLogs entries.
InitCatchUp ==
    /\ head = DefaultLastBlock + MaxNewBlocks
    /\ logs \in Chains
    /\ file = NoFile
    /\ batch_size \in BatchSizes
    /\ errors = FALSE
    /\ pc = "before_loop"
    /\ last_block = DefaultLastBlock
    /\ error_channel = FALSE
    /\ from_block = 0
    /\ to_block = 0
    /\ q = 0
    /\ events = <<>>
    /\ cycleSent = <<>>
    /\ delivered = {}
    /\ lastWritten = DefaultLastBlock
    /\ outcome = "none"
    /\ reported = FALSE
    /\ interrupted = NoInterrupt
    /\ due = FALSE

SpecCatchUp == InitCatchUp /\ [][NextNoFault]_vars /\ WF_vars(NextNoFault)

\* ------------------------------------------------- undecodable log entries
\* a log entry whose arguments could not be decoded: receipt.get('args', {})
\* (events.py:22) gives the event an empty dict for it
Undecoded(l) == [l EXCEPT !.args = <<>>]

\* the chains on which exactly one entry is undecoded
MalformedChains ==
    UNION {{(S \ {b}) \cup {Undecoded(b)} : b \in S} : S \in BusyChains}

\* to_embed reads a key the dict of a receipt does not have: KeyError, which
\* is not one of the loop's retried types
RenderFails ==
    /\ pc = "deliver"
    /\ Len(cycleSent) < Len(events)
    /\ ~Renderable(SortedEvents(events)[Len(cycleSent) + 1])
    /\ Raise("fatal")
    /\ UNCHANGED <<due, head, logs, file, batch_size, errors, last_block,
                   error_channel, from_block, delivered, lastWritten>>

\* The process is started on a chain with one undecoded entry; no collaborator
\* call fails.
InitMalformed ==
    /\ head = DefaultLastBlock + MaxNewBlocks
    /\ logs \in MalformedChains
    /\ file = NoFile
    /\ batch_size \in BatchSizes
    /\ errors \in BOOLEAN
    /\ pc = "before_loop"
    /\ last_block = DefaultLastBlock
    /\ error_channel = FALSE
    /\ from_block = 0
    /\ to_block = 0
    /\ q = 0
    /\ events = <<>>
    /\ cycleSent = <<>>
    /\ delivered = {}
    /\ lastWritten = DefaultLastBlock
    /\ outcome = "none"
    /\ reported = FALSE
    /\ interrupted = NoInterrupt
    /\ due = FALSE

NextMalformed ==
    \/ SetupOk
    \/ Tick
    \/ StartCycle
    \/ FetchLogs
    \/ Deliver
    \/ RenderFails
    \/ Persist
    \/ OnErrorNoChannel
    \/ OnErrorSent

SpecMalformed == InitMalformed /\ [][NextMalformed]_vars

\* ------------------------------------------------ src/stakewatch.py
\* The single-file variant of the cog: one hard-coded vault, Deposited and
\* ExitQueueEntered logs, one embed per log entry, blocking chain calls (the
\* only await of fetch_events is the send), no error handler.
SwVault == "Private Vault"

\* get_deposit_events: every list of (block_number, embed) it can return, one
\* per order in which get_all_entries hands over the entries
get_deposit_events(lo, hi) ==
    {[n \in 1..Len(p) |->
         <<p[n].blockNumber,
           [title |-> "Deposit", vault_name |-> SwVault,
            tx_hash |-> p[n].transactionHash, amount |-> p[n].args["assets"]]>>] :
       p \in Perms(Matching("Deposit", SwVault, lo, hi))}

\* get_exit_events: likewise, with convertToAssets called per entry
get_exit_events(lo, hi) ==
    {[n \in 1..Len(p) |->
         <<p[n].blockNumber,
           [title |-> "ExitRequest", vault_name |-> SwVault,
            tx_hash |-> p[n].transactionHash,
            amount |-> ConvertToAssets(p[n].args["shares"], p[n].blockNumber)]>>] :
       p \in Perms(Matching("ExitRequest", SwVault, lo, hi))}

\* Python compares (block_number, embed) tuples element by element: with equal
\* block numbers it goes on to the embeds, and discord.Embed has __eq__ but no
\* __lt__, so two different embeds raise TypeError
TupleOrderable(a, b) == a[1] # b[1] \/ a[2] = b[2]

\* sorted(embeds) raises: two tuples that sort next to each other must be
\* compared, and some two tuples of one block cannot be
SortRaises(s) ==
    \E a, b \in 1..Len(s) : ~TupleOrderable(s[a], s[b])

\* sorted(embeds) when every comparison it makes is defined
RECURSIVE SortedTuples(_)
SortedTuples(s) ==
    IF s = <<>> THEN <<>>
    ELSE LET init == SortedTuples(SubSeq(s, 1, Len(s) - 1))
             e == s[Len(s)]
             k == Cardinality({n \in 1..Len(init) : init[n][1] <= e[1]})
         IN SubSeq(init, 1, k) \o <<e>> \o SubSeq(init, k + 1, Len(init))

\* setup, stakewatch.py:80-83
SwSetup ==
    /\ pc = "before_loop"
    /\ pc' = "sleep"
    /\ due' = TRUE
    /\ UNCHANGED <<head, logs, file, batch_size, errors, last_block,
                   error_channel, from_block, to_block, q, events, cycleSent,
                   delivered, lastWritten, outcome, reported, interrupted>>

\* fetch_events, stakewatch.py:61-74, which run without an await: the range,
\* the early return, both fetches and the sort
SwFetchEvents ==
    /\ pc = "sleep"
    /\ due
    /\ due' = FALSE
    /\ from_block' = last_block + 1
    /\ to_block' = Min(head, (last_block + 1) + batch_size - 1)
    /\ cycleSent' = <<>>
    /\ IF to_block' < from_block'
       THEN pc' = "sleep" /\ outcome' = "idle" /\ events' = <<>>
       ELSE \E d \in get_deposit_events(from_block', to_block'),
               x \in get_exit_events(from_block', to_block') :
               /\ ~SortRaises(d \o x)
               /\ events' = SortedTuples(d \o x)
               /\ pc' = "deliver"
               /\ outcome' = "running"
    /\ UNCHANGED <<head, logs, file, batch_size, errors, last_block,
                   error_channel, q, delivered, lastWritten, reported,
                   interrupted>>

\* stakewatch.py:74 raises TypeError. The cog registers no error handler and
\* TypeError is not one of the loop's retried types: the task ends.
SwSortFails ==
    /\ pc = "sleep"
    /\ due
    /\ due' = FALSE
    /\ from_block' = last_block + 1
    /\ to_block' = Min(head, (last_block + 1) + batch_size - 1)
    /\ to_block' >= from_block'
    /\ \E d \in get_deposit_events(from_block', to_block'),
          x \in get_exit_events(from_block', to_block') : SortRaises(d \o x)
    /\ cycleSent' = <<>>
    /\ events' = <<>>
    /\ pc' = "failed"
    /\ outcome' = "aborted"
    /\ UNCHANGED <<head, logs, file, batch_size, errors, last_block,
                   error_channel, q, delivered, lastWritten, reported,
                   interrupted>>

\* stakewatch.py:74-75, one pass of the loop with the send returning
SwSend ==
    /\ pc = "deliver"
    /\ Len(cycleSent) < Len(events)
    /\ LET embed == events[Len(cycleSent) + 1][2]
       IN /\ cycleSent' = Append(cycleSent, embed)
          /\ delivered' = delivered \cup {embed}
    /\ UNCHANGED <<due, head, logs, file, batch_size, errors, pc, last_block,
                   error_channel, from_block, to_block, q, events, lastWritten,
                   outcome, reported, interrupted>>

\* stakewatch.py:77-78
SwPersist ==
    /\ pc = "deliver"
    /\ Len(cycleSent) = Len(events)
    /\ last_block' = to_block
    /\ file' = SavedFile(to_block)
    /\ lastWritten' = to_block
    /\ pc' = "sleep"
    /\ outcome' = "completed"
    /\ events' = <<>>
    /\ UNCHANGED <<due, head, logs, batch_size, errors, error_channel,
                   from_block, to_block, q, cycleSent, delivered, reported,
                   interrupted>>

\* The process is started on a chain that already holds its blocks and
\* entries; no call fails.
InitStakewatch ==
    /\ head = DefaultLastBlock + MaxNewBlocks
    /\ logs \in BusyChains
    /\ file = NoFile
    /\ batch_size \in BatchSizes
    /\ errors = FALSE
    /\ pc = "before_loop"
    /\ last_block = DefaultLastBlock
    /\ error_channel = FALSE
    /\ from_block = 0
    /\ to_block = 0
    /\ q = 0
    /\ events = <<>>
    /\ cycleSent = <<>>
    /\ delivered = {}
    /\ lastWritten = DefaultLastBlock
    /\ outcome = "none"
    /\ reported = FALSE
    /\ interrupted = NoInterrupt
    /\ due = FALSE

NextStakewatch ==
    \/ SwSetup
    \/ Tick
    \/ SwFetchEvents
    \/ SwSortFails
    \/ SwSend
    \/ SwPersist

SpecStakewatch == InitStakewatch /\ [][NextStakewatch]_vars

\* ============================================================ properties
\* the domain events the chain holds in blocks lo..hi, as the messages that
\* announce them: one per vault, kind and transaction
RECURSIVE SetSum(_, _)
SetSum(S, f) ==
    IF S = {} THEN 0
    ELSE LET x == CHOOSE y \in S : TRUE IN x.args[f] + SetSum(S \ {x}, f)

\* the entries the transaction of l emitted for l's vault and kind
SameEvent(l) ==
    {x \in logs : /\ x.address = l.address /\ x.event = l.event
                  /\ x.transactionHash = l.transactionHash}

\* the quantity of the domain event l belongs to
Quantity(l) ==
    CASE l.event = "Deposit" -> SetSum(SameEvent(l), "assets")
      [] l.event = "ExitRequest" ->
            ConvertToAssets(SetSum(SameEvent(l), "shares"), l.blockNumber)
      [] l.event = "ValidatorRegistration" -> Cardinality(SameEvent(l))

DomainEvents(lo, hi) ==
    {[title |-> l.event, vault_name |-> l.address, tx_hash |-> l.transactionHash,
      amount |-> Quantity(l)] :
        l \in {x \in logs : lo <= x.blockNumber /\ x.blockNumber <= hi}}

SentSet == {cycleSent[n] : n \in 1..Len(cycleSent)}

\* every send of the cycle in flight has returned, for every event of its range
AllSent ==
    /\ pc = "deliver"
    /\ Len(cycleSent) = Len(events)
    /\ SentSet = DomainEvents(from_block, to_block)

\* <<block, tx_index>> pairs in ascending lexicographic order
SlotLess(a, b) == a[1] < b[1] \/ (a[1] = b[1] /\ a[2] < b[2])

\* ---- C1
\* C1: while the process lives, self.state['last_block'] never decreases, and
\* a complete checkpoint in the state file is never lower than the complete
\* checkpoint the file held before; either changes only to the `to` of the
\* cycle in flight, and only once every event of that cycle's range was sent.
C1_Monotonic ==
    [][/\ (Running /\ Running') => last_block' >= last_block
       /\ lastWritten' >= lastWritten
       /\ file'.status = "ok" => file'.last_block >= lastWritten
       /\ (Running /\ Running' /\ last_block' # last_block) =>
              (last_block' = to_block /\ AllSent)
       /\ (file' # file /\ file'.status = "ok") =>
              (file'.last_block = to_block /\ AllSent)]_vars

\* the checkpoint moved twice or by two blocks and a message was sent on the way
C1_Witness ==
    /\ outcome = "completed"
    /\ last_block = DefaultLastBlock + 2
    /\ file = SavedFile(last_block)
    /\ delivered # {}

\* ---- C2
\* C2: every domain event in a block above the starting checkpoint and at or
\* below the checkpoint the file holds (or last held) was sent at least once.
C2_NeverLost ==
    /\ DomainEvents(DefaultLastBlock + 1, lastWritten) \subseteq delivered
    /\ file.status = "ok" =>
          DomainEvents(DefaultLastBlock + 1, file.last_block) \subseteq delivered

\* the process was started again and the file's checkpoint covers an event
C2_Witness ==
    /\ file.status = "ok"
    /\ DomainEvents(DefaultLastBlock + 1, file.last_block) # {}
    /\ pc = "before_loop"

\* ---- C3
\* C3: when a cycle has completed and the domain events of its range sit in
\* pairwise distinct (block, tx_index) slots, the messages it sent are exactly
\* those events, one message each, in ascending (block, tx_index) order.
C3_OrderedOnce ==
    LET evs == DomainEvents(from_block, to_block)
    IN (/\ outcome = "completed"
        /\ \A a, b \in evs : a.tx_hash = b.tx_hash => a = b)
       => /\ Len(cycleSent) = Cardinality(evs)
          /\ SentSet = evs
          /\ \A a, b \in 1..Len(cycleSent) :
                a < b => SlotLess(cycleSent[a].tx_hash, cycleSent[b].tx_hash)

\* a Deposit in transaction 1 and an ExitRequest in transaction 0 of one block:
\* the Deposit is fetched first and sent second
C3_Witness ==
    /\ outcome = "completed"
    /\ Len(cycleSent) = 2
    /\ cycleSent[1].title = "ExitRequest"
    /\ cycleSent[2].title = "Deposit"
    /\ cycleSent[1].tx_hash[1] = cycleSent[2].tx_hash[1]
    /\ cycleSent[1].tx_hash[2] < cycleSent[2].tx_hash[2]

\* ---- C4
\* C4: when fetch_events is about to run and min(chain head, last_block +
\* batch_size) is below last_block + 1, the next step fetches no logs, sends
\* nothing, leaves the state file alone and leaves last_block as it is.
EmptyRange == Min(head, (last_block + 1) + batch_size - 1) < last_block + 1

C4_IdleRange ==
    [][(pc = "sleep" /\ EmptyRange) =>
          /\ pc' \notin {"fetch", "deliver"}
          /\ q' = 0
          /\ cycleSent' \in {<<>>, cycleSent}
          /\ delivered' = delivered
          /\ file' = file
          /\ Running' => last_block' = last_block]_vars

\* a cycle returned early after the process had caught up with the chain
C4_Witness ==
    /\ outcome = "idle"
    /\ pc = "sleep"
    /\ from_block = last_block + 1
    /\ to_block < from_block
    /\ head = last_block
    /\ last_block > DefaultLastBlock

\* ---- C5
\* C5: after the process died in the delivery loop of a cycle with range
\* [from, to], having sent at least one message and before _save_state, the
\* first cycle after the next startup starts at the same from, reaches at
\* least the same to, and once its sends have all returned it has sent a
\* message for every event of [from, to] again.
C5_Resumes ==
    (interrupted.valid /\ pc \in {"fetch", "deliver"}) =>
        /\ from_block = interrupted.from
        /\ to_block >= interrupted.to
        /\ AllSent => DomainEvents(interrupted.from, interrupted.to) \subseteq SentSet

\* ---- C6
\* C6: every cycle that writes its checkpoint starts one block after the
\* checkpoint written before it (the first one after the starting checkpoint).
C6_Contiguous ==
    [][(file' # file /\ file'.status = "ok") => from_block = lastWritten + 1]_vars

\* ---- C7
\* C7: after a cycle was aborted by a failed call or by a failed checkpoint
\* write, last_block in memory is what it was when the cycle started, so the
\* next cycle's from is the aborted cycle's from; the file is not damaged.
C7_AbortKeepsCheckpoint ==
    outcome \in {"aborted", "save_failed"} =>
        /\ last_block + 1 = from_block
        /\ file.status \in {"absent", "ok"}

\* ---- C8
\* C8: after a cycle failed, the loop is idle again once the error handler is
\* through (it is never left stopped by the failure).
C8_BackToIdle ==
    outcome = "aborted" => pc \in {"on_error", "sleep", "cancelled"}

\* ---- C9
\* C9: once an aborted cycle's failure has been handled, the error sink has a
\* report of it, whatever the configuration.
C9_AbortReported ==
    (outcome = "aborted" /\ pc \in {"sleep", "failed"}) => reported

\* ---- C10
\* C10: a startup never finds a state file it cannot load: the file is absent
\* or holds a complete checkpoint whenever the process is down, and __init__
\* never fails on it.
C10_AtomicSave ==
    /\ pc = "down" => file.status \in {"absent", "ok"}
    /\ pc # "load_failed"

\* ---- C11
\* the events fetch_events holds for one kind and vault
EventsOf(kind, vault) ==
    SelectSeq(events, LAMBDA e : e.kind = kind /\ e.vault_name = vault)

\* C11: once the logs of a cycle are fetched, in whatever order the entries
\* arrived, for every vault and kind there is exactly one event per transaction
\* hash among the matching entries, each entry's payload is in exactly one
\* event (the one of its transaction), a Deposit's quantity is the sum of the
\* assets of all entries of its transaction, and that is the quantity sent.
C11_Aggregation ==
    pc = "deliver" =>
        /\ \A k \in KindSet, v \in VaultSet :
              LET raw == Matching(k, v, from_block, to_block)
                  evs == EventsOf(k, v)
              IN /\ Len(evs) = Cardinality({l.transactionHash : l \in raw})
                 /\ \A l \in raw :
                       \E n \in 1..Len(evs) :
                          /\ evs[n].tx_hash = l.transactionHash
                          /\ Len(evs[n].args) = Cardinality(SameEvent(l))
                          /\ \E a \in 1..Len(evs[n].args) : evs[n].args[a] = l.args
                          /\ k = "Deposit" =>
                                DepositAmount(evs[n]) = SetSum(SameEvent(l), "assets")
                          /\ \A o \in 1..Len(evs) :
                                evs[o].tx_hash = l.transactionHash => o = n
        /\ \A n \in 1..Len(cycleSent) :
              cycleSent[n] \in DomainEvents(from_block, to_block)

\* two Deposit entries of one transaction arrived as 5, then 3, and one
\* message with quantity 8 was sent for them
C11_Witness ==
    /\ pc = "deliver"
    /\ \E n \in 1..Len(events) :
          /\ events[n].kind = "Deposit"
          /\ events[n].args = <<[assets |-> 5], [assets |-> 3]>>
    /\ \E n \in 1..Len(cycleSent) :
          cycleSent[n].title = "Deposit" /\ cycleSent[n].amount = 8

\* ---- C12
\* C12: for every ExitRequest event of a cycle, to_embed makes exactly one
\* convertToAssets call, with the sum of the shares of all entries of the
\* event's transaction as argument and the event's block as block identifier;
\* the quantity sent is what the vault returns for that sum at that block.
C12_SumBeforeConversion ==
    /\ \A n \in 1..Len(events) :
          events[n].kind = "ExitRequest" =>
             LET calls == ConvertCalls(events[n])
                 raw == {l \in logs : /\ l.event = "ExitRequest"
                                      /\ l.address = events[n].vault_name
                                      /\ l.transactionHash = events[n].tx_hash}
             IN /\ Len(calls) = 1
                /\ calls[1].shares = SetSum(raw, "shares")
                /\ calls[1].block_identifier = events[n].tx_hash[1]
    /\ \A n \in 1..Len(cycleSent) :
          cycleSent[n].title = "ExitRequest" =>
             \E l \in logs :
                /\ l.event = "ExitRequest"
                /\ l.address = cycleSent[n].vault_name
                /\ l.transactionHash = cycleSent[n].tx_hash
                /\ cycleSent[n].amount =
                      ConvertToAssets(SetSum(SameEvent(l), "shares"), l.blockNumber)

\* shares 3 and 5 of one transaction in a block below the head were converted
\* as 8 at that block's price of 3/2: 12 (two calls would give 4 + 7, the
\* head's price 16)
C12_Witness ==
    /\ head > DefaultLastBlock + 1
    /\ \E n \in 1..Len(cycleSent) :
          /\ cycleSent[n].title = "ExitRequest"
          /\ cycleSent[n].tx_hash[1] = DefaultLastBlock + 1
          /\ cycleSent[n].amount = 12
    /\ ConvertToAssets(3, DefaultLastBlock + 1) + ConvertToAssets(5, DefaultLastBlock + 1) = 11
    /\ ConvertToAssets(8, head) # 12

\* ---- C13
\* a step in which fetch_events begins to run: the loop takes its deadline
CycleBegins == due /\ ~due' /\ pc' # "down"

\* C13: fetch_events begins to run only when the loop is asleep between two
\* iterations: never while a call of it is fetching, delivering or saving, and
\* never while the error handler runs, whether or not the deadline of the next
\* iteration has passed in the meantime.
C13_SingleFlight ==
    [][CycleBegins => pc = "sleep"]_vars

\* the deadline of the next iteration has passed while a cycle that began
\* after an earlier one is suspended in its delivery loop
C13_Witness ==
    /\ pc = "deliver"
    /\ due
    /\ Len(cycleSent) < Len(events)
    /\ from_block > DefaultLastBlock + 1

\* ---- C14
\* C14: the step that cancels fetch_events changes neither last_block nor the
\* state file, and after a cycle in flight was cancelled last_block is still
\* the block before the cycle's from and the file holds no checkpoint of that
\* cycle.
C14_CancelIsSafe ==
    /\ [][(pc' = "cancelled" /\ pc # "cancelled") =>
             /\ last_block' = last_block
             /\ file' = file
             /\ lastWritten' = lastWritten]_vars
    /\ [](pc = "cancelled" /\ outcome = "cancelled" =>
             /\ last_block = from_block - 1
             /\ file.status = "ok" => file.last_block < from_block)

\* a cycle whose range holds an event was cancelled after an earlier cycle
\* had written its checkpoint
C14_Witness ==
    /\ pc = "cancelled"
    /\ outcome = "cancelled"
    /\ DomainEvents(from_block, to_block) # {}
    /\ file = SavedFile(from_block - 1)

\* ---- C15
\* C15: the error handler never ends by raising: a failed send to the error
\* channel stays inside on_error.
C15_SinkFailureSwallowed ==
    outcome # "handler_failed"

\* ---- C16
\* C16: on a chain with an undecodable entry and with no collaborator call
\* failing, no cycle is aborted and the loop is never stopped: the entry's
\* event is set aside and the cycle goes on.
C16_OneEventRejected ==
    /\ outcome # "aborted"
    /\ pc \notin {"on_error", "failed"}

\* ---- C17
\* C17: no two of the events a cycle has collected share (block, tx_idx).
C17_KeyIsTotal ==
    pc = "deliver" =>
        \A a, b \in 1..Len(events) :
            (events[a].block = events[b].block /\ events[a].tx_idx = events[b].tx_idx)
                => a = b

\* ---- C18
\* the log entries stakewatch.py watches in blocks lo..hi
SwWatched(lo, hi) ==
    {l \in logs : /\ l.address = SwVault
                  /\ l.event \in {"Deposit", "ExitRequest"}
                  /\ lo <= l.blockNumber /\ l.blockNumber <= hi}

\* C18: in stakewatch.py no cycle dies on the entries of its range: a cycle
\* that has sent all its messages has sent one per entry, those of one block
\* in ascending tx_index, and the cycle advances the checkpoint.
C18_SameBlockInOrder ==
    /\ pc # "failed"
    /\ (pc = "deliver" /\ Len(cycleSent) = Len(events)) =>
          /\ Len(cycleSent) = Cardinality(SwWatched(from_block, to_block))
          /\ \A a, b \in 1..Len(cycleSent) :
                (a < b /\ cycleSent[a].tx_hash # cycleSent[b].tx_hash)
                   => SlotLess(cycleSent[a].tx_hash, cycleSent[b].tx_hash)

C20_CatchUp ==
    /\ [][last_block' # last_block =>
             /\ last_block' >= last_block + 1
             /\ last_block' <= last_block + batch_size
             /\ last_block' <= head]_vars
    /\ (batch_size >= 1) =>
          <>[](last_block = head /\ pc = "sleep" /\ outcome = "idle")

\* the process caught up in steps of one block, sent something on the way and
\* has since run an empty cycle
C20_Witness ==
    /\ batch_size = 1
    /\ last_block = head
    /\ head = DefaultLastBlock + MaxNewBlocks
    /\ outcome = "idle"
    /\ delivered # {}

====
